---- MODULE Spec2Model ----
(***************************************************************************)
(* A model of the nGraph CPU back end pieces in this repository:           *)
(*   - runtime::cpu::CPUCallFrame (cpu_call_frame.cpp): the call frame and *)
(*     the Runtime Context it allocates and frees;                         *)
(*   - runtime::cpu::pass::CPURnnMatFusion and CPUBatchDotFusion with      *)
(*     identify_batch_dot (second half of op/sigmoid_mul.hpp).             *)
(* The three parts share no state; `mode` says which part a behaviour is   *)
(* about, and SpecFrame, SpecRnn and SpecBatch are the parts on their own. *)
(***************************************************************************)
EXTENDS Integers, Sequences, FiniteSets, TLC

\* ---- bounds of the model ----
MaxFrames == 1
MaxCtx == 2
MaxTensors == 1
MaxX == 1        \* data extents [x, y, DataZ], x in 0..MaxX, y in 1..MaxY
MaxY == 2
DataZ == 2
WeightsV == 1    \* weights extents [DataZ, WeightsV]
MaxSites == 3    \* Add sites in the graph handed to CPURnnMatFusion
MaxRuns == 2     \* successive runs of a pass on one graph
MaxOperands == 2 \* operands of the Concat handed to CPUBatchDotFusion
MaxSkips == 2    \* Reshape nodes between a Slice and the Reshape over it
DotDim == 2      \* rows and columns of the matrices of a batched dot
MaxTimers == 2   \* debug timers the execution engine keeps

VARIABLES
    mode,       \* "frame", "rnn" or "batch": the part of the program that runs
    frames,     \* CPUCallFrame objects: lifecycle state and the m_ctx pointer
    heap,       \* CPURuntimeContext allocations, by allocation id
    tracing,    \* runtime::cpu::is_tracing_enabled(), a process-wide toggle
    lastCall,   \* what the call / tensor_call in progress did ("none": no call)
    uaf,        \* a freed Runtime Context was read or handed to the entry point
    double_free,\* a Runtime Context was deleted a second time
    crashed,    \* the process died of undefined behaviour
    perf,       \* what the get_performance_data in progress found and returned
    nodes,      \* the graph: node handle -> node
    pc,         \* where run_on_function is
    run,        \* which run of the pass on this graph this is
    op_seg_map, \* CPURnnMatFusion: site -> the nodes its three Labels bound
    param_list, \* CPURnnMatFusion: parameter triple -> its sites
    visited,    \* the groups of param_list the rewrite loop is through with
    cur,        \* the group being rewritten: its key, the nodes built for it,
                \* and how many of its sites are replaced
    todo,       \* CPUBatchDotFusion: the ops of the loop not yet visited
    modified,   \* run_on_function's local `modified`
    replaced,   \* history: the replace_node calls made, in order
    built       \* history: the groups a fused dot/add was built for

frameVars == <<frames, heap, tracing, lastCall, uaf, double_free, crashed,
               perf>>
passVars == <<nodes, pc, run, op_seg_map, param_list, visited, cur, todo,
              modified, replaced, built>>
vars == <<mode, frameVars, passVars>>

\* ------------------------------------------------------------------------
\* Helpers
\* ------------------------------------------------------------------------
SetMin(S) == CHOOSE m \in S : \A o \in S : m <= o

RECURSIVE SeqSum(_)
SeqSum(s) == IF s = <<>> THEN 0 ELSE Head(s) + SeqSum(Tail(s))

\* Sequences over S of length 0..n
SeqsUpTo(S, n) == UNION {[1..k -> S] : k \in 0..n}

\* ------------------------------------------------------------------------
\* CPUCallFrame
\* ------------------------------------------------------------------------
Frames == 1..MaxFrames
Ctxs == 1..MaxCtx

\* A layout descriptor list: TRUE is a descriptor, FALSE is nullptr.
LayoutLists == SeqsUpTo(BOOLEAN, MaxTensors)

\* Structured arguments of call(): each argument is a tuple of 1..MaxTensors
\* leaf tensor views; at most MaxTensors leaves in all.
ArgLists == {a \in SeqsUpTo(1..MaxTensors, MaxTensors) : SeqSum(a) <= MaxTensors}

NoCall == [via |-> "none", in_ok |-> FALSE, out_ok |-> FALSE,
           in_bound |-> FALSE, out_bound |-> FALSE,
           raised |-> FALSE, invoked |-> FALSE, durations |-> "none"]

\* no get_performance_data is in progress
NoPerf == [asked |-> FALSE, engine |-> FALSE, hooks |-> {}, count |-> 0,
           rc |-> <<>>]

\* no call is in progress: the caller is between two operations
Idle == lastCall.via = "none" /\ ~perf.asked

FreshCtx == [st |-> "unalloc", op_durations |-> "null"]

\* propagate_layouts over ntvs tensor views: whether it threw, and the tensor
\* views whose layout it had set by then.
propagate_layouts_nocheck(ntvs, layouts) ==
    [raised |-> FALSE, bound |-> 1..ntvs]

propagate_layouts(ntvs, layouts) ==
    IF Len(layouts) # ntvs
    THEN [raised |-> TRUE, bound |-> {}]
    ELSE LET absent == {i \in 1..ntvs : ~layouts[i]}
         IN  IF absent = {}
             THEN [raised |-> FALSE, bound |-> 1..ntvs]
             ELSE [raised |-> TRUE, bound |-> 1..(SetMin(absent) - 1)]

\* new CPURuntimeContext: the next allocation id
NewCtx == SetMin({c \in Ctxs : heap[c].st = "unalloc"})
CanAlloc == \E c \in Ctxs : heap[c].st = "unalloc"

\* setup_runtime_context on frame f: m_ctx is overwritten by a new context,
\* with a duration buffer only if tracing is enabled now.
setup_runtime_context(f, fr) ==
    /\ CanAlloc
    /\ frames' = [fr EXCEPT ![f].m_ctx = NewCtx]
    /\ heap' = [heap EXCEPT ![NewCtx] =
                   [st |-> "live",
                    op_durations |-> IF tracing THEN "buf" ELSE "null"]]
    /\ UNCHANGED <<uaf, double_free, crashed>>

\* cleanup_runtime_context on frame f: delete[] m_ctx->op_durations and
\* delete m_ctx; m_ctx keeps its value. On a context already freed the read
\* and both deletes are undefined: the process may die or go on.
cleanup_runtime_context(f, fr) ==
    LET c == fr[f].m_ctx
    IN  /\ frames' = fr
        /\ IF heap[c].st = "live"
           THEN /\ heap' = [heap EXCEPT ![c].st = "freed"]
                /\ UNCHANGED <<uaf, double_free, crashed>>
           ELSE /\ uaf' = TRUE
                /\ double_free' = TRUE
                /\ crashed' \in BOOLEAN
                /\ UNCHANGED heap

\* CPUCallFrame::CPUCallFrame
Construct(f) ==
    /\ mode = "frame" /\ ~crashed /\ Idle
    /\ frames[f].st = "none"
    /\ setup_runtime_context(f, [frames EXCEPT ![f].st = "alive"])
    /\ UNCHANGED <<mode, tracing, lastCall, passVars, perf>>

\* CPUCallFrame::~CPUCallFrame
Destroy(f) ==
    /\ mode = "frame" /\ ~crashed /\ Idle
    /\ frames[f].st = "alive"
    /\ cleanup_runtime_context(f, [frames EXCEPT ![f].st = "destroyed"])
    /\ UNCHANGED <<mode, tracing, lastCall, passVars, perf>>

\* the public CPUCallFrame::setup_runtime_context
SetupRuntimeContext(f) ==
    /\ mode = "frame" /\ ~crashed /\ Idle
    /\ frames[f].st = "alive"
    /\ setup_runtime_context(f, frames)
    /\ UNCHANGED <<mode, tracing, lastCall, passVars, perf>>

\* the public CPUCallFrame::cleanup_runtime_context
CleanupRuntimeContext(f) ==
    /\ mode = "frame" /\ ~crashed /\ Idle
    /\ frames[f].st = "alive"
    /\ cleanup_runtime_context(f, frames)
    /\ UNCHANGED <<mode, tracing, lastCall, passVars, perf>>

\* A layout descriptor list fits n tensor views: as many descriptors, none
\* of them nullptr.
LayoutsOk(n, layouts) == Len(layouts) = n /\ \A i \in 1..n : layouts[i]

\* The result descriptors tensor_call can see: get_result_layout_descriptors()
\* is evaluated only if the propagation over the inputs did not throw.
ResultLayoutsRead(nin, lin) ==
    IF propagate_layouts(nin, lin).raised THEN {<<>>} ELSE LayoutLists

\* tensor_call on nin input and nout output tensor views, with the layout
\* descriptors the external function hands out
tensor_call(f, via, nin, lin, nout, lout) ==
    LET pin == propagate_layouts(nin, lin)
        pout == IF pin.raised THEN [raised |-> FALSE, bound |-> {}]
                ELSE propagate_layouts(nout, lout)
        invoked == ~pin.raised /\ ~pout.raised
        c == frames[f].m_ctx
        dangling == invoked /\ heap[c].st # "live"
    IN  /\ lastCall' = [via |-> via,
                        in_ok |-> LayoutsOk(nin, lin),
                        out_ok |-> ~pin.raised /\ LayoutsOk(nout, lout),
                        in_bound |-> pin.bound = 1..nin,
                        out_bound |-> pout.bound = 1..nout,
                        raised |-> ~invoked, invoked |-> invoked,
                        durations |-> IF invoked /\ tracing
                                      THEN (IF dangling THEN "freed"
                                            ELSE heap[c].op_durations)
                                      ELSE "none"]
        /\ IF dangling
           THEN uaf' = TRUE /\ crashed' \in BOOLEAN
           ELSE UNCHANGED <<uaf, crashed>>
        /\ UNCHANGED <<mode, frames, heap, tracing, double_free, passVars, perf>>

TensorCall(f, nin, lin, nout, lout) ==
    /\ mode = "frame" /\ ~crashed /\ Idle
    /\ frames[f].st = "alive"
    /\ tensor_call(f, "tensor_call", nin, lin, nout, lout)

\* call: every argument and result is expanded into its leaf tensor views
Call(f, arguments, lin, results, lout) ==
    /\ mode = "frame" /\ ~crashed /\ Idle
    /\ frames[f].st = "alive"
    /\ tensor_call(f, "call", SeqSum(arguments), lin, SeqSum(results), lout)

\* the tracing toggle is process-wide and may change at any time
SetTracing(b) ==
    /\ mode = "frame" /\ ~crashed /\ Idle
    /\ tracing # b
    /\ tracing' = b
    /\ UNCHANGED <<mode, frames, heap, lastCall, uaf, double_free, crashed, passVars, perf>>

\* The four hooks get_performance_data looks up in the execution engine
Hooks == {"get_debug_timer_count", "get_debug_timer_name",
          "get_debug_timer_microseconds", "get_debug_timer_call_count"}

\* what the engine's hooks answer for timer i (0-based)
get_name(i) == i
get_microseconds(i) == 10 * (i + 1)
get_call_count(i) == i + 1

\* what get_debug_timer_count can answer: nothing answers where it is missing
TimerCounts(hooks) ==
    IF "get_debug_timer_count" \in hooks THEN 0..MaxTimers ELSE {0}

\* get_performance_data with every hook called whether it was found or not
get_performance_data_nocheck(engine, hooks, count) ==
    [i \in 1..count |->
        [name |-> get_name(i - 1), microseconds |-> get_microseconds(i - 1),
         call_count |-> get_call_count(i - 1)]]

\* get_performance_data: rc, given whether m_execution_engine is set, the
\* hooks find_function finds in it and the number of its timers
get_performance_data(engine, hooks, count) ==
    IF engine /\ Hooks \subseteq hooks
    THEN [i \in 1..count |->
             [name |-> get_name(i - 1),
              microseconds |-> get_microseconds(i - 1),
              call_count |-> get_call_count(i - 1)]]
    ELSE <<>>

\* CPUCallFrame::get_performance_data
GetPerformanceData(f, engine, hooks, count) ==
    /\ mode = "frame" /\ ~crashed /\ Idle
    /\ frames[f].st = "alive"
    /\ perf' = [asked |-> TRUE, engine |-> engine, hooks |-> hooks,
                count |-> count,
                rc |-> get_performance_data(engine, hooks, count)]
    /\ UNCHANGED <<mode, frames, heap, tracing, lastCall, uaf, double_free,
                   crashed, passVars>>

\* call, tensor_call or get_performance_data returns (or its exception
\* reaches the caller)
Return ==
    /\ mode = "frame" /\ ~crashed /\ ~Idle
    /\ lastCall' = NoCall
    /\ perf' = NoPerf
    /\ UNCHANGED <<mode, frames, heap, tracing, uaf, double_free, crashed, passVars>>

\* the parts of the state a behaviour of another part never touches
NoCur == [key |-> <<>>, add_node |-> 0, done |-> 0]

PassIdle ==
    /\ nodes = <<>>
    /\ pc = "idle"
    /\ run = 0
    /\ op_seg_map = <<>>
    /\ param_list = <<>>
    /\ visited = {}
    /\ cur = NoCur
    /\ todo = <<>>
    /\ modified = FALSE
    /\ replaced = <<>>
    /\ built = <<>>

FrameIdle ==
    /\ frames = [f \in Frames |-> [st |-> "none", m_ctx |-> 0]]
    /\ heap = [c \in Ctxs |-> FreshCtx]
    /\ tracing = FALSE
    /\ lastCall = NoCall
    /\ uaf = FALSE
    /\ double_free = FALSE
    /\ crashed = FALSE
    /\ perf = NoPerf

InitFrame ==
    /\ mode = "frame"
    /\ PassIdle
    /\ frames = [f \in Frames |-> [st |-> "none", m_ctx |-> 0]]
    /\ heap = [c \in Ctxs |-> FreshCtx]
    /\ tracing \in BOOLEAN
    /\ lastCall = NoCall
    /\ uaf = FALSE
    /\ double_free = FALSE
    /\ crashed = FALSE
    /\ perf = NoPerf

\* the frames a caller can invoke now: alive, and no call in progress
Callable ==
    {f \in Frames : mode = "frame" /\ ~crashed /\ Idle /\ frames[f].st = "alive"}

NextFrame ==
    \/ \E f \in Frames : Construct(f)
    \/ \E f \in Frames : Destroy(f)
    \/ \E f \in Frames : SetupRuntimeContext(f)
    \/ \E f \in Frames : CleanupRuntimeContext(f)
    \/ \E f \in Callable, nin \in 0..MaxTensors, lin \in LayoutLists :
          \E nout \in 0..MaxTensors, lout \in ResultLayoutsRead(nin, lin) :
              TensorCall(f, nin, lin, nout, lout)
    \/ \E f \in Callable, a \in ArgLists, lin \in LayoutLists :
          \E r \in ArgLists, lout \in ResultLayoutsRead(SeqSum(a), lin) :
              Call(f, a, lin, r, lout)
    \/ \E b \in BOOLEAN : SetTracing(b)
    \/ \E f \in Callable, hooks \in SUBSET Hooks :
          \E count \in TimerCounts(hooks) :
              GetPerformanceData(f, TRUE, hooks, count)
    \/ \E f \in Callable : GetPerformanceData(f, FALSE, {}, 0)
    \/ Return

SpecFrame == InitFrame /\ [][NextFrame]_vars

\* ------------------------------------------------------------------------
\* Graph: nodes are numbered in order of creation (the arena handle of a
\* node); a node's arguments are handles.
\* ------------------------------------------------------------------------
Node(kind, args, shape) ==
    [kind |-> kind, args |-> args, shape |-> shape,
     lower |-> <<>>, upper |-> <<>>, strides |-> <<>>, transpose |-> <<>>]

CeilDiv(a, b) == (a + b - 1) \div b

\* op::Slice's output shape, one extent per axis
SliceShape(lower, upper, strides) ==
    [i \in DOMAIN lower |-> CeilDiv(upper[i] - lower[i], strides[i])]

\* op::Slice's constructor accepts the bounds
SliceValid(argshape, lower, upper, strides) ==
    /\ Len(lower) = Len(argshape) /\ Len(upper) = Len(argshape)
    /\ Len(strides) = Len(argshape)
    /\ \A i \in DOMAIN argshape :
           /\ upper[i] <= argshape[i]
           /\ lower[i] <= upper[i]
           /\ strides[i] # 0

SliceNode(arg, lower, upper, strides) ==
    [kind |-> "Slice", args |-> <<arg>>,
     shape |-> SliceShape(lower, upper, strides),
     lower |-> lower, upper |-> upper, strides |-> strides,
     transpose |-> <<>>]

\* op::Dot of two matrices: accepted when the inner extents agree
DotValid(a, b) == Len(a) = 2 /\ Len(b) = 2 /\ a[2] = b[1]
DotShape(a, b) == <<a[1], b[2]>>

\* the nodes reachable from the function's Result nodes
RECURSIVE Closure(_, _)
Closure(g, S) ==
    LET S2 == S \cup UNION {{g[n].args[j] : j \in DOMAIN g[n].args} : n \in S}
    IN  IF S2 = S THEN S ELSE Closure(g, S2)

Ops(g) == Closure(g, {n \in DOMAIN g : g[n].kind = "Result"})

\* the members of S among handles 1..n, in increasing order
InOrder(S, n) ==
    LET In(i) == i \in S
    IN  SelectSeq([i \in 1..n |-> i], In)

\* the nodes of R not yet placed, layer by layer: a node comes after all of
\* its arguments
RECURSIVE Layers(_, _, _)
Layers(g, R, placed) ==
    LET next == {n \in R \ placed :
                    \A j \in DOMAIN g[n].args : g[n].args[j] \in placed}
    IN  IF next = {} THEN <<>>
        ELSE InOrder(next, Len(g)) \o Layers(g, R, placed \cup next)

\* Function::get_ordered_ops: the function's nodes, arguments before users
get_ordered_ops(g) == Layers(g, Ops(g), {})

\* Function::replace_node(target, replacement): every user of target now
\* takes replacement in its place
replace_node(g, target, replacement) ==
    [n \in DOMAIN g |->
        [g[n] EXCEPT !.args = [j \in DOMAIN @ |->
                                  IF @[j] = target THEN replacement ELSE @[j]]]]

\* ------------------------------------------------------------------------
\* Patterns and the Matcher. A pattern is a table of pattern nodes; entry 1
\* is its root. A Label and a Skip carry a predicate, named by the node kind
\* it accepts ("" accepts every node).
\* The shapes the source gives its Labels size the pattern's own nodes; the
\* passes are written for operands of any extent (sigmoid_mul.hpp:198-200),
\* so a Label accepts a node of any shape.
\* ------------------------------------------------------------------------
POp(kind, pargs) == [pk |-> "Op", kind |-> kind, pargs |-> pargs, label |-> ""]
PLabel(label, pred) == [pk |-> "Label", kind |-> pred, pargs |-> <<>>, label |-> label]
PSkip(parg, pred) == [pk |-> "Skip", kind |-> pred, pargs |-> <<parg>>, label |-> ""]

Pred(pred, g, n) == pred = "" \/ g[n].kind = pred

PatLabels(pat) == {pat[p].label : p \in {q \in DOMAIN pat : pat[q].pk = "Label"}}

\* Matcher::match of pattern node p against graph node n with the bindings m
\* (0: the Label is not bound)
RECURSIVE Match(_, _, _, _, _)
RECURSIVE MatchArgs(_, _, _, _, _, _)
Match(pat, g, p, n, m) ==
    LET pn == pat[p]
    IN  CASE pn.pk = "Label" ->
                 IF m[pn.label] # 0
                 THEN [ok |-> m[pn.label] = n, map |-> m]
                 ELSE IF Pred(pn.kind, g, n)
                      THEN [ok |-> TRUE, map |-> [m EXCEPT ![pn.label] = n]]
                      ELSE [ok |-> FALSE, map |-> m]
          [] pn.pk = "Skip" ->
                 IF Pred(pn.kind, g, n) /\ Len(g[n].args) = 1
                 THEN Match(pat, g, p, g[n].args[1], m)
                 ELSE Match(pat, g, pn.pargs[1], n, m)
          [] OTHER ->
                 IF g[n].kind = pn.kind /\ Len(g[n].args) = Len(pn.pargs)
                 THEN MatchArgs(pat, g, pn.pargs, g[n].args, 1, m)
                 ELSE [ok |-> FALSE, map |-> m]

MatchArgs(pat, g, pargs, args, j, m) ==
    IF j > Len(pargs) THEN [ok |-> TRUE, map |-> m]
    ELSE LET r == Match(pat, g, pargs[j], args[j], m)
         IN  IF r.ok THEN MatchArgs(pat, g, pargs, args, j + 1, r.map) ELSE r

\* matcher->match(n): the bindings are those of this attempt alone
matcher_match(pat, g, n) ==
    LET unbound == [l \in PatLabels(pat) |-> 0]
        r == Match(pat, g, 1, n, unbound)
    IN  IF r.ok THEN r ELSE [ok |-> FALSE, map |-> unbound]

\* ------------------------------------------------------------------------
\* CPURnnMatFusion
\* ------------------------------------------------------------------------
NUM_MMB_ARGS == 3

\* struct Type, as positions in a NodeVector
Type == [DATA |-> 1, WEIGHTS |-> 2, BIAS |-> 3]

\* construct_data_pattern: Add(Dot(Reshape(data_slice), W), broadcast)
data_pattern ==
    <<POp("Add", <<2, 6>>), POp("Dot", <<3, 5>>), POp("Reshape", <<4>>),
      PLabel("data_slice", "Slice"), PLabel("W", ""), PLabel("broadcast", "")>>

\* construct_weights_pattern: Add(Dot(X, weights_reshape), broadcast)
weights_pattern ==
    <<POp("Add", <<2, 5>>), POp("Dot", <<3, 4>>), PLabel("X", ""),
      PLabel("weights_reshape", "Reshape"), PLabel("broadcast", "")>>

\* construct_bias_pattern: Add(dot_label, bias_broadcast)
bias_pattern ==
    <<POp("Add", <<2, 3>>), PLabel("dot_label", ""),
      PLabel("bias_broadcast", "Broadcast")>>

labels == <<"data_slice", "weights_reshape", "bias_broadcast">>
matchers == <<data_pattern, weights_pattern, bias_pattern>>

\* The loop over the three matchers for one node n, from matcher i on, with
\* the params and matched_nodes gathered so far for n: the entries it makes,
\* each an op_seg_map.insert(n, matched_nodes) and a
\* param_list[params].push_back(n).
RECURSIVE match_loop_any(_, _, _, _, _)
match_loop_any(g, n, i, params, matched_nodes) ==
    IF i > NUM_MMB_ARGS THEN <<>>
    ELSE LET r == matcher_match(matchers[i], g, n)
             params2 == Append(params, n)
             matched2 == Append(matched_nodes, IF r.ok THEN r.map[labels[i]] ELSE n)
         IN  IF Len(params2) # NUM_MMB_ARGS
             THEN match_loop_any(g, n, i + 1, params2, matched2)
             ELSE IF g[n].kind = "Add"
                  THEN <<[n |-> n, params |-> params2, matched_nodes |-> matched2]>>
                  ELSE <<>>

\* match_loop with the label-bound node itself pushed as the parameter
RECURSIVE match_loop_bound(_, _, _, _, _)
match_loop_bound(g, n, i, params, matched_nodes) ==
    IF i > NUM_MMB_ARGS THEN <<>>
    ELSE LET r == matcher_match(matchers[i], g, n)
             matched == r.map[labels[i]]
             params2 == IF r.ok THEN Append(params, matched) ELSE params
             matched2 == IF r.ok THEN Append(matched_nodes, matched)
                         ELSE matched_nodes
         IN  IF Len(params2) # NUM_MMB_ARGS
             THEN match_loop_bound(g, n, i + 1, params2, matched2)
             ELSE <<[n |-> n, params |-> params2, matched_nodes |-> matched2]>>
                  \o match_loop_bound(g, n, i + 1, params2, matched2)

RECURSIVE match_loop(_, _, _, _, _)
match_loop(g, n, i, params, matched_nodes) ==
    IF i > NUM_MMB_ARGS THEN <<>>
    ELSE LET r == matcher_match(matchers[i], g, n)
             matched == r.map[labels[i]]
             params2 == IF r.ok THEN Append(params, g[matched].args[1])
                        ELSE params
             matched2 == IF r.ok THEN Append(matched_nodes, matched)
                         ELSE matched_nodes
         IN  IF Len(params2) # NUM_MMB_ARGS
             THEN match_loop(g, n, i + 1, params2, matched2)
             ELSE <<[n |-> n, params |-> params2, matched_nodes |-> matched2]>>
                  \o match_loop(g, n, i + 1, params2, matched2)

RECURSIVE Flatten(_, _)
Flatten(ss, k) == IF k > Len(ss) THEN <<>> ELSE ss[k] \o Flatten(ss, k + 1)

\* The loop over get_ordered_ops(): params and matched_nodes start empty for
\* every node. op_seg_map.insert keeps the first entry of a node;
\* param_list[params] lists the sites in the order they were pushed.
scan_ops(g, ops) ==
    LET entries == Flatten([k \in 1..Len(ops) |->
                               match_loop(g, ops[k], 1, <<>>, <<>>)], 1)
        first(n) == CHOOSE j \in DOMAIN entries :
                        /\ entries[j].n = n
                        /\ \A h \in DOMAIN entries : entries[h].n = n => j <= h
        group(key) == LET Is(e) == e.params = key
                          es == SelectSeq(entries, Is)
                      IN  [j \in DOMAIN es |-> es[j].n]
    IN  [osm |-> [n \in {entries[j].n : j \in DOMAIN entries} |->
                     entries[first(n)].matched_nodes],
         pl |-> [key \in {entries[j].params : j \in DOMAIN entries} |->
                    group(key)]]

\* "remove params with single combo op": the groups that stay
prune(pl) == [k \in {q \in DOMAIN pl : ~(Len(pl[q]) < 2)} |-> pl[k]]

\* The nodes built once for a group: the flattening Reshape of the data, a
\* copy of the first site's weights Reshape, their Dot, the Broadcast of the
\* bias and the Add. ok is FALSE when op::Dot refuses the operands.
fused_nodes(g, osm, params, op_nodes) ==
    LET data_node == params[Type.DATA]
        weights_node == params[Type.WEIGHTS]
        bias_node == params[Type.BIAS]
        data_shape == g[data_node].shape
        base == Len(g)
        data_reshape_node ==
            Node("Reshape", <<data_node>>,
                 <<data_shape[1] * data_shape[2], data_shape[3]>>)
        old_weights_reshape_node == osm[op_nodes[1]][Type.WEIGHTS]
        weights_reshape_node ==
            [g[old_weights_reshape_node] EXCEPT !.args = <<weights_node>>]
        ok == DotValid(data_reshape_node.shape, weights_reshape_node.shape)
        dot_shape == DotShape(data_reshape_node.shape, weights_reshape_node.shape)
        dot_node == Node("Dot", <<base + 1, base + 2>>, dot_shape)
        bias_broadcast_node == Node("Broadcast", <<bias_node>>, dot_shape)
        add_node == Node("Add", <<base + 3, base + 4>>, dot_shape)
    IN  [ok |-> ok,
         new |-> IF ok
                 THEN <<data_reshape_node, weights_reshape_node, dot_node,
                        bias_broadcast_node, add_node>>
                 ELSE <<data_reshape_node, weights_reshape_node>>,
         add_node |-> base + 5]

\* The Slice of the fused result that stands in for site op; ok is FALSE when
\* op::Slice refuses the bounds.
site_slice(g, osm, data_node, add_node, op) ==
    LET data_shape == g[data_node].shape
        add_shape == g[add_node].shape
        old_slice == osm[op][Type.DATA]
        old_lower_bounds == g[old_slice].lower
        lower_bounds == <<old_lower_bounds[2], 0>>
        strides == <<data_shape[2], 1>>
    IN  [ok |-> SliceValid(add_shape, lower_bounds, add_shape, strides),
         node |-> [kind |-> "Slice", args |-> <<add_node>>,
                   shape |-> IF strides[1] = 0 THEN <<>>
                             ELSE SliceShape(lower_bounds, add_shape, strides),
                   lower |-> lower_bounds, upper |-> add_shape,
                   strides |-> strides, transpose |-> <<>>]]

\* run_on_function, the loop over the graph (lines 155-183)
RnnScan ==
    /\ mode = "rnn" /\ pc = "scan"
    /\ LET r == scan_ops(nodes, get_ordered_ops(nodes))
       IN  /\ op_seg_map' = r.osm
           /\ param_list' = r.pl
    /\ pc' = "prune"
    /\ UNCHANGED <<mode, frameVars, todo, nodes, run, visited, cur, modified,
                   replaced, built>>

\* run_on_function, the loop that drops the groups of one site (lines 185-196)
RnnPrune ==
    /\ mode = "rnn" /\ pc = "prune"
    /\ param_list' = prune(param_list)
    /\ pc' = "fuse"
    /\ UNCHANGED <<mode, frameVars, todo, nodes, run, op_seg_map, visited, cur,
                   modified, replaced, built>>

\* run_on_function, the head of the rewrite loop for the next group (lines
\* 202-226). std::map orders the groups by the addresses of their nodes: any
\* group not yet visited may be the next.
RnnFuseGroup(key) ==
    /\ mode = "rnn" /\ pc = "fuse"
    /\ key \in DOMAIN param_list /\ key \notin visited
    /\ LET f == fused_nodes(nodes, op_seg_map, key, param_list[key])
       IN  /\ nodes' = nodes \o f.new
           /\ IF f.ok
              THEN /\ pc' = "replace"
                   /\ cur' = [key |-> key, add_node |-> f.add_node, done |-> 0]
                   /\ built' = Append(built, [run |-> run, key |-> key,
                                              add_node |-> f.add_node])
              ELSE /\ pc' = "failed"
                   /\ UNCHANGED <<cur, built>>
    /\ UNCHANGED <<mode, frameVars, todo, run, op_seg_map, param_list, visited,
                   modified, replaced>>

\* run_on_function, one turn of the loop over the sites of the group (lines
\* 229-243), and `modified = true` after the last
RnnReplaceSite ==
    /\ mode = "rnn" /\ pc = "replace"
    /\ LET op_nodes == param_list[cur.key]
           op == op_nodes[cur.done + 1]
           sl == site_slice(nodes, op_seg_map, cur.key[Type.DATA],
                            cur.add_node, op)
           slice_node == Len(nodes) + 1
           last == cur.done + 1 = Len(op_nodes)
       IN  IF sl.ok
           THEN /\ nodes' = replace_node(Append(nodes, sl.node), op, slice_node)
                /\ replaced' = Append(replaced,
                                      [run |-> run, key |-> cur.key,
                                       old |-> op, new |-> slice_node])
                /\ IF last
                   THEN /\ modified' = TRUE
                        /\ visited' = visited \cup {cur.key}
                        /\ cur' = NoCur
                        /\ pc' = "fuse"
                   ELSE /\ cur' = [cur EXCEPT !.done = @ + 1]
                        /\ UNCHANGED <<modified, visited, pc>>
           ELSE /\ pc' = "failed"
                /\ UNCHANGED <<nodes, replaced, modified, visited, cur>>
    /\ UNCHANGED <<mode, frameVars, todo, run, op_seg_map, param_list, built>>

\* run_on_function returns modified
RnnReturn ==
    /\ mode = "rnn" /\ pc = "fuse"
    /\ DOMAIN param_list \subseteq visited
    /\ pc' = "done"
    /\ UNCHANGED <<mode, frameVars, todo, nodes, run, op_seg_map, param_list,
                   visited, cur, modified, replaced, built>>

\* the pass is run on the same function again
RnnRunAgain ==
    /\ mode = "rnn" /\ pc = "done"
    /\ run < MaxRuns
    /\ run' = run + 1
    /\ pc' = "scan"
    /\ op_seg_map' = <<>>
    /\ param_list' = <<>>
    /\ visited' = {}
    /\ cur' = NoCur
    /\ modified' = FALSE
    /\ UNCHANGED <<mode, frameVars, todo, nodes, replaced, built>>

\* ---- the graphs the pass is run on ----
\* A site is an Add over a Dot of a reshaped data slice with reshaped weights
\* and a broadcast bias, or one of its near misses. Its descriptor: the data
\* node (1: the parameter P, 2: the Slice D1 of all of P), the weights and bias parameters, the time step t, the
\* slice taken (std: time step t of every batch; wide: time steps t and t+1;
\* tail: time step t of the batches from 1), and the form (full, or with the
\* Slice, the weights Reshape or the Broadcast replaced by another node).
Desc(d, w, b, t, var, form) ==
    [d |-> d, w |-> w, b |-> b, t |-> t, var |-> var, form |-> form]

SiteDesc(c, y) ==
    IF c <= y THEN Desc(2, 1, 1, c - 1, "std", "full")
    ELSE CASE c = y + 1 -> Desc(1, 1, 1, 0, "std", "full")
           [] c = y + 2 -> Desc(2, 2, 1, 0, "std", "full")
           [] c = y + 3 -> Desc(2, 1, 2, 0, "std", "full")
           [] c = y + 4 -> Desc(2, 1, 1, 0, "std", "noslice")
           [] c = y + 5 -> Desc(2, 1, 1, 0, "std", "noreshape")
           [] c = y + 6 -> Desc(2, 1, 1, 0, "std", "nobcast")
           [] c = y + 7 -> Desc(2, 1, 1, 0, "wide", "full")
           [] OTHER -> Desc(2, 1, 1, 0, "tail", "full")

DescOk(s, x, y) ==
    /\ s.var = "wide" => s.t + 2 <= y
    /\ s.var = "tail" => x >= 1

\* the lists of sites: in descriptor order, every descriptor possible
SiteLists(x, y) ==
    {cs \in SeqsUpTo(1..(y + 8), MaxSites) :
        /\ \A i \in DOMAIN cs : DescOk(SiteDesc(cs[i], y), x, y)
        /\ \A i \in DOMAIN cs : i > 1 => cs[i - 1] <= cs[i]}

\* P, D1 (the Slice of all of P), W1, W2, B1, B2
Leaves(x, y) ==
    <<Node("Parameter", <<>>, <<x, y, DataZ>>),
      SliceNode(1, <<0, 0, 0>>, <<x, y, DataZ>>, <<1, 1, 1>>),
      Node("Parameter", <<>>, <<DataZ, WeightsV>>),
      Node("Parameter", <<>>, <<DataZ, WeightsV>>),
      Node("Parameter", <<>>, <<WeightsV>>),
      Node("Parameter", <<>>, <<WeightsV>>)>>

NumLeaves == Len(Leaves(0, 1))

\* the seven nodes of site k: slice, reshape, weights reshape, dot, broadcast,
\* add, result
SiteNodes(k, s, x, y) ==
    LET base == NumLeaves + 7 * (k - 1)
        lower == IF s.var = "tail" THEN <<1, s.t, 0>> ELSE <<0, s.t, 0>>
        upper == IF s.var = "wide" THEN <<x, s.t + 2, DataZ>>
                 ELSE <<x, s.t + 1, DataZ>>
        sl == IF s.form = "noslice"
              THEN Node("Reshape", <<s.d>>, <<x, y, DataZ>>)
              ELSE SliceNode(s.d, lower, upper, <<1, 1, 1>>)
        rows == sl.shape[1] * sl.shape[2]
        out == <<rows, WeightsV>>
    IN  <<sl,
          Node("Reshape", <<base + 1>>, <<rows, DataZ>>),
          Node("Reshape", <<2 + s.w>>, <<DataZ, WeightsV>>),
          Node("Dot", <<base + 2,
                        IF s.form = "noreshape" THEN 2 + s.w ELSE base + 3>>,
               out),
          IF s.form = "nobcast" THEN Node("Parameter", <<>>, out)
          ELSE Node("Broadcast", <<4 + s.b>>, out),
          Node("Add", <<base + 4, base + 5>>, out),
          Node("Result", <<base + 6>>, out)>>

RECURSIVE AllSiteNodes(_, _, _, _)
AllSiteNodes(cs, k, x, y) ==
    IF k > Len(cs) THEN <<>>
    ELSE SiteNodes(k, SiteDesc(cs[k], y), x, y) \o AllSiteNodes(cs, k + 1, x, y)

RnnGraph(x, y, cs) == Leaves(x, y) \o AllSiteNodes(cs, 1, x, y)

InitRnn ==
    /\ mode = "rnn"
    /\ FrameIdle
    /\ \E x \in 0..MaxX, y \in 1..MaxY :
          \E cs \in SiteLists(x, y) : nodes = RnnGraph(x, y, cs)
    /\ pc = "scan"
    /\ run = 1
    /\ op_seg_map = <<>>
    /\ param_list = <<>>
    /\ visited = {}
    /\ cur = NoCur
    /\ todo = <<>>
    /\ modified = FALSE
    /\ replaced = <<>>
    /\ built = <<>>

NextRnn ==
    \/ RnnScan
    \/ RnnPrune
    \/ \E key \in DOMAIN param_list : RnnFuseGroup(key)
    \/ RnnReplaceSite
    \/ RnnReturn
    \/ RnnRunAgain

SpecRnn == InitRnn /\ [][NextRnn]_vars

\* ------------------------------------------------------------------------
\* CPUBatchDotFusion
\* ------------------------------------------------------------------------
\* the pattern of identify_batch_dot:
\* Reshape(Dot(Reshape(Skip(Slice(param_0))), Reshape(Skip(Slice(param_1)))))
batch_dot_pattern ==
    <<POp("Reshape", <<2>>), POp("Dot", <<3, 7>>),
      POp("Reshape", <<4>>), PSkip(5, "Reshape"), POp("Slice", <<6>>),
      PLabel("param_0", ""),
      POp("Reshape", <<8>>), PSkip(9, "Reshape"), POp("Slice", <<10>>),
      PLabel("param_1", "")>>

\* the do-while walks from the match root to the first Parameter: branch 0
\* follows get_argument(0), branch 1 follows get_argument(1) where the node
\* has more than one input
RECURSIVE reshape_count(_, _, _)
reshape_count(g, iter, branch) ==
    LET here == IF g[iter].kind = "Reshape" THEN 1 ELSE 0
        next == IF branch = 1 /\ Len(g[iter].args) > 1
                THEN g[iter].args[2] ELSE g[iter].args[1]
    IN  IF g[next].kind = "Parameter" THEN here
        ELSE here + reshape_count(g, next, branch)

\* the loop over n->get_arguments(), from argument j on
RECURSIVE batch_dot_args(_, _, _, _)
batch_dot_args(g, n, j, acc) ==
    IF j > Len(g[n].args) THEN acc
    ELSE LET arg == g[n].args[j]
             r == matcher_match(batch_dot_pattern, g, arg)
             reshape_count_0 == reshape_count(g, arg, 0)
             reshape_count_1 == reshape_count(g, arg, 1)
             acc2 ==
                 [transpose |->
                      <<acc.transpose[1] \/ reshape_count_0 = 3,
                        acc.transpose[2] \/ reshape_count_1 = 3>>,
                  input_nodes |->
                      <<IF acc.input_nodes[1] = 0 THEN r.map["param_0"]
                        ELSE acc.input_nodes[1],
                        IF acc.input_nodes[2] = 0 THEN r.map["param_1"]
                        ELSE acc.input_nodes[2]>>]
         IN  batch_dot_args(g, n, j + 1, IF r.ok THEN acc2 ELSE acc)

\* identify_batch_dot(n): the BatchDot node, or none (0: nullptr)
identify_batch_dot(g, n) ==
    LET acc == batch_dot_args(g, n, 1, [transpose |-> <<FALSE, FALSE>>,
                                        input_nodes |-> <<0, 0>>])
    IN  [found |-> acc.input_nodes[1] # 0 /\ acc.input_nodes[2] # 0,
         node |-> [Node("BatchDot", acc.input_nodes,
                        <<Len(g[n].args), DotDim, DotDim>>)
                      EXCEPT !.transpose = acc.transpose]]

\* the place in todo of the next node whose type is op::Concat (0: none)
NextConcat(ops) ==
    LET at == {k \in DOMAIN ops : nodes[ops[k]].kind = "Concat"}
    IN  IF at = {} THEN 0 ELSE SetMin(at)

\* run_on_function takes the list of get_ordered_ops()
BatchBegin ==
    /\ mode = "batch" /\ pc = "start"
    /\ todo' = get_ordered_ops(nodes)
    /\ pc' = "visit"
    /\ UNCHANGED <<mode, frameVars, nodes, run, op_seg_map, param_list,
                   visited, cur, modified, replaced, built>>

\* the loop up to and through the next Concat: identify_batch_dot, and
\* replace_node when it returned a node. modified is not assigned.
BatchVisitConcat ==
    /\ mode = "batch" /\ pc = "visit"
    /\ NextConcat(todo) # 0
    /\ LET n == todo[NextConcat(todo)]
           fused_node == identify_batch_dot(nodes, n)
       IN  /\ IF fused_node.found
              THEN /\ nodes' = replace_node(Append(nodes, fused_node.node), n,
                                            Len(nodes) + 1)
                   /\ replaced' = Append(replaced,
                                         [run |-> run, key |-> <<>>, old |-> n,
                                          new |-> Len(nodes) + 1])
              ELSE UNCHANGED <<nodes, replaced>>
           /\ todo' = SubSeq(todo, NextConcat(todo) + 1, Len(todo))
    /\ UNCHANGED <<mode, frameVars, pc, run, op_seg_map, param_list, visited,
                   cur, modified, built>>

\* the rest of the loop holds no Concat; run_on_function returns modified
BatchReturn ==
    /\ mode = "batch" /\ pc = "visit"
    /\ NextConcat(todo) = 0
    /\ todo' = <<>>
    /\ pc' = "done"
    /\ UNCHANGED <<mode, frameVars, nodes, run, op_seg_map, param_list,
                   visited, cur, modified, replaced, built>>

\* the pass is run on the same function again
BatchRunAgain ==
    /\ mode = "batch" /\ pc = "done"
    /\ run < MaxRuns
    /\ run' = run + 1
    /\ pc' = "start"
    /\ UNCHANGED <<mode, frameVars, nodes, op_seg_map, param_list, visited,
                   cur, todo, modified, replaced, built>>

\* ---- the graphs the pass is run on ----
\* The sources: the parameters P and Q, and N = Negative(Reshape(P)).
\* An operand of the Concat is Reshape(Dot(branch 0, branch 1)), a branch
\* being a Reshape over s further Reshapes over a Slice of a source; or a
\* Reshape of a Slice with no Dot, which the pattern does not match.
BatchLeaves ==
    <<Node("Parameter", <<>>, <<MaxOperands, DotDim, DotDim>>),
      Node("Parameter", <<>>, <<MaxOperands, DotDim, DotDim>>),
      Node("Reshape", <<1>>, <<MaxOperands, DotDim, DotDim>>),
      Node("Negative", <<3>>, <<MaxOperands, DotDim, DotDim>>)>>

OperandDesc(c) ==
    LET K == (MaxSkips + 1) * (MaxSkips + 1)
    IN  IF c <= K
        THEN [a |-> 1, b |-> 2, s0 |-> (c - 1) \div (MaxSkips + 1),
              s1 |-> (c - 1) % (MaxSkips + 1), dot |-> TRUE]
        ELSE CASE c = K + 1 -> [a |-> 2, b |-> 1, s0 |-> 0, s1 |-> 0, dot |-> TRUE]
               [] c = K + 2 -> [a |-> 1, b |-> 1, s0 |-> 0, s1 |-> 0, dot |-> TRUE]
               [] c = K + 3 -> [a |-> 4, b |-> 2, s0 |-> 0, s1 |-> 0, dot |-> TRUE]
               [] OTHER -> [a |-> 1, b |-> 1, s0 |-> 0, s1 |-> 0, dot |-> FALSE]

OperandCodes == 1..((MaxSkips + 1) * (MaxSkips + 1) + 4)

\* a branch: the Slice of batch k of src, s Reshapes, the Reshape to a matrix
Branch(base, src, k, s) ==
    <<SliceNode(src, <<k - 1, 0, 0>>, <<k, DotDim, DotDim>>, <<1, 1, 1>>)>>
    \o [i \in 1..s |-> Node("Reshape", <<base + i>>, <<1, DotDim, DotDim>>)]
    \o <<Node("Reshape", <<base + s + 1>>, <<DotDim, DotDim>>)>>

\* the nodes of operand k, numbered from base + 1; the last is the operand
OperandNodes(base, k, d) ==
    IF d.dot
    THEN LET top0 == base + d.s0 + 2
             top1 == top0 + d.s1 + 2
         IN  Branch(base, d.a, k, d.s0) \o Branch(top0, d.b, k, d.s1)
             \o <<Node("Dot", <<top0, top1>>, <<DotDim, DotDim>>),
                  Node("Reshape", <<top1 + 1>>, <<1, DotDim, DotDim>>)>>
    ELSE <<SliceNode(d.a, <<k - 1, 0, 0>>, <<k, DotDim, DotDim>>, <<1, 1, 1>>),
           Node("Reshape", <<base + 1>>, <<1, DotDim, DotDim>>)>>

RECURSIVE BuildOperands(_, _, _, _)
BuildOperands(cs, k, g, roots) ==
    IF k > Len(cs) THEN [g |-> g, roots |-> roots]
    ELSE LET g2 == g \o OperandNodes(Len(g), k, OperandDesc(cs[k]))
         IN  BuildOperands(cs, k + 1, g2, Append(roots, Len(g2)))

\* Result(Concat(operands)); with no operand, Result(P)
BatchGraph(cs) ==
    LET b == BuildOperands(cs, 1, BatchLeaves, <<>>)
    IN  IF cs = <<>>
        THEN Append(BatchLeaves, Node("Result", <<1>>, BatchLeaves[1].shape))
        ELSE b.g \o <<Node("Concat", b.roots, <<Len(cs), DotDim, DotDim>>),
                      Node("Result", <<Len(b.g) + 1>>,
                           <<Len(cs), DotDim, DotDim>>)>>

InitBatch ==
    /\ mode = "batch"
    /\ FrameIdle
    /\ \E cs \in SeqsUpTo(OperandCodes, MaxOperands) : nodes = BatchGraph(cs)
    /\ pc = "start"
    /\ run = 1
    /\ op_seg_map = <<>>
    /\ param_list = <<>>
    /\ visited = {}
    /\ cur = NoCur
    /\ todo = <<>>
    /\ modified = FALSE
    /\ replaced = <<>>
    /\ built = <<>>

NextBatch ==
    \/ BatchBegin
    \/ BatchVisitConcat
    \/ BatchReturn
    \/ BatchRunAgain

SpecBatch == InitBatch /\ [][NextBatch]_vars

\* ------------------------------------------------------------------------
\* The whole program: a call frame's life, or a run of one of the two passes
\* ------------------------------------------------------------------------
Init == InitFrame \/ InitRnn \/ InitBatch

Next == NextFrame \/ NextRnn \/ NextBatch

Spec == Init /\ [][Next]_vars

\* ------------------------------------------------------------------------
\* C1: tensor_call (and call) invokes the compiled entry point only when, for
\* inputs and for outputs, the descriptor count equals the tensor count and no
\* descriptor is absent, and then every input and output tensor had its layout
\* bound; in every other case it raises an error and does not invoke it.
\* ------------------------------------------------------------------------
C1_EntryOnlyAfterLayouts ==
    lastCall.via # "none" =>
        /\ lastCall.invoked <=> (lastCall.in_ok /\ lastCall.out_ok)
        /\ lastCall.raised <=> ~(lastCall.in_ok /\ lastCall.out_ok)
        /\ lastCall.invoked => (lastCall.in_bound /\ lastCall.out_bound)

\* a call() refused for its output descriptors after every input was bound
C1_Witness ==
    /\ lastCall.via = "call"
    /\ lastCall.in_ok /\ lastCall.in_bound
    /\ ~lastCall.out_ok
    /\ lastCall.raised /\ ~lastCall.invoked

\* ------------------------------------------------------------------------
\* C2: every Runtime Context that is allocated is freed exactly once (never
\* twice, never leaked), is never read or passed to the entry point after it
\* was freed, and is never held by two frames at once.
\* ------------------------------------------------------------------------
Holders(c) == {f \in Frames : frames[f].st = "alive" /\ frames[f].m_ctx = c}
Leaked(c) == heap[c].st = "live" /\ Holders(c) = {}

C2_ContextFreedExactlyOnce ==
    /\ ~double_free
    /\ \A c \in Ctxs : ~Leaked(c)
    /\ ~uaf
    /\ \A c \in Ctxs : Cardinality(Holders(c)) <= 1

\* ------------------------------------------------------------------------
\* C3: after the scan of CPURnnMatFusion, a node is recorded as a candidate
\* site exactly when the data, the weights and the bias matcher all match that
\* node; it is then recorded once (one op_seg_map entry, one place in one
\* param_list group), and its three label-bound nodes and its three
\* parameters are those of the matches on that very node.
\* ------------------------------------------------------------------------
AllMatch(g, n) ==
    \A i \in 1..NUM_MMB_ARGS : matcher_match(matchers[i], g, n).ok

BoundNode(g, n, i) == matcher_match(matchers[i], g, n).map[labels[i]]

Places(n) ==
    UNION {{<<key, j>> : j \in {h \in DOMAIN param_list[key] :
                                    param_list[key][h] = n}} :
           key \in DOMAIN param_list}

C3_CandidateIffAllThreeMatch ==
    pc = "prune" =>
        LET ops == Ops(nodes)
        IN  /\ \A n \in DOMAIN nodes :
                   n \in DOMAIN op_seg_map <=> (n \in ops /\ AllMatch(nodes, n))
            /\ \A n \in DOMAIN op_seg_map :
                   /\ Cardinality(Places(n)) = 1
                   /\ \A i \in 1..NUM_MMB_ARGS :
                          /\ op_seg_map[n][i] = BoundNode(nodes, n, i)
                          /\ \A pl \in Places(n) :
                                 pl[1][i] = nodes[BoundNode(nodes, n, i)].args[1]

\* the scan recorded a site and passed over an Add that only some of the
\* matchers match
C3_Witness ==
    /\ pc = "prune"
    /\ op_seg_map # <<>>
    /\ \E n \in Ops(nodes) :
           /\ n \notin DOMAIN op_seg_map
           /\ \E i \in 1..NUM_MMB_ARGS : matcher_match(matchers[i], nodes, n).ok
           /\ \E m \in DOMAIN op_seg_map : m < n

\* ------------------------------------------------------------------------
\* C4 as stated: two candidate sites are in the same group exactly when the
\* nodes their data, weights and bias Labels were bound to are the identical
\* nodes, position by position.
\* ------------------------------------------------------------------------
SameGroup(n1, n2) ==
    \E key \in DOMAIN param_list :
        \E j1, j2 \in DOMAIN param_list[key] :
            param_list[key][j1] = n1 /\ param_list[key][j2] = n2

C4_GroupedByBoundNodes ==
    pc = "prune" =>
        \A n1, n2 \in DOMAIN op_seg_map :
            SameGroup(n1, n2) <=> op_seg_map[n1] = op_seg_map[n2]

\* ------------------------------------------------------------------------
\* C4 amended: two candidate sites are in the same group exactly when the
\* first arguments of the nodes their data, weights and bias Labels were bound
\* to (the data, weights and bias parameters) are the identical nodes,
\* position by position; the fused Dot and Add of a group are built over a
\* Reshape of that data parameter, a Reshape of that weights parameter and a
\* Broadcast of that bias parameter, which every site of the group shares.
\* ------------------------------------------------------------------------
GroupKey(n) == [i \in 1..NUM_MMB_ARGS |-> nodes[op_seg_map[n][i]].args[1]]

FusedOver(a, key) ==
    /\ nodes[a].kind = "Add" /\ nodes[a].args = <<a - 2, a - 1>>
    /\ nodes[a - 2].kind = "Dot" /\ nodes[a - 2].args = <<a - 4, a - 3>>
    /\ nodes[a - 4].kind = "Reshape" /\ nodes[a - 4].args = <<key[Type.DATA]>>
    /\ nodes[a - 3].kind = "Reshape" /\ nodes[a - 3].args = <<key[Type.WEIGHTS]>>
    /\ nodes[a - 1].kind = "Broadcast" /\ nodes[a - 1].args = <<key[Type.BIAS]>>

C4_GroupedByParameters ==
    /\ pc = "prune" =>
           \A n1, n2 \in DOMAIN op_seg_map :
               SameGroup(n1, n2) <=> GroupKey(n1) = GroupKey(n2)
    /\ \A j \in DOMAIN built :
           built[j].run = run =>
               /\ built[j].key \in DOMAIN param_list
               /\ FusedOver(built[j].add_node, built[j].key)
               /\ \A h \in DOMAIN param_list[built[j].key] :
                      GroupKey(param_list[built[j].key][h]) = built[j].key

\* a group of two sites bound to different nodes was fused while another
\* candidate site stayed outside the group
C4_Witness ==
    /\ pc = "replace"
    /\ \E j \in DOMAIN built : built[j].run = run /\ built[j].key = cur.key
    /\ \E n1, n2 \in DOMAIN op_seg_map :
           /\ SameGroup(n1, n2)
           /\ \A i \in 1..NUM_MMB_ARGS : op_seg_map[n1][i] # op_seg_map[n2][i]
    /\ \E n \in DOMAIN op_seg_map : GroupKey(n) # cur.key

\* the replace_node calls of the current run on site n, and on the sites of
\* the group key
ReplacedSite(n) ==
    {j \in DOMAIN replaced : replaced[j].run = run /\ replaced[j].old = n}

ReplacedOfGroup(key) ==
    {j \in DOMAIN replaced : replaced[j].run = run /\ replaced[j].key = key}

BuiltFor(key) ==
    {j \in DOMAIN built : built[j].run = run /\ built[j].key = key}

\* the candidate sites grouped with n by the scan
GroupOf(n) == {m \in DOMAIN op_seg_map : GroupKey(m) = GroupKey(n)}

Ended == pc \in {"done", "failed"}

\* ------------------------------------------------------------------------
\* C5: when CPURnnMatFusion has ended, no site of a group of fewer than two
\* sites was passed to replace_node and no fused node was built for it (a
\* graph with one candidate site is left as it was), and every site of every
\* group of two or more sites was replaced exactly once.
\* ------------------------------------------------------------------------
C5_SmallGroupsDroppedOthersReplaced ==
    Ended =>
        /\ \A n \in DOMAIN op_seg_map :
               IF Cardinality(GroupOf(n)) < 2
               THEN ReplacedSite(n) = {} /\ BuiltFor(GroupKey(n)) = {}
               ELSE Cardinality(ReplacedSite(n)) = 1
        /\ Cardinality(DOMAIN op_seg_map) = 1 =>
               /\ ReplacedOfGroup(GroupKey(CHOOSE n \in DOMAIN op_seg_map : TRUE)) = {}
               /\ ~modified

\* ------------------------------------------------------------------------
\* C6: the rewrite of a group is all-or-nothing: when the replacement of a
\* site cannot be built, no site of that group has been redirected by
\* replace_node, and the pass never ends with some sites of a group replaced
\* and others not.
\* ------------------------------------------------------------------------
C6_GroupRewriteAllOrNothing ==
    /\ pc = "failed" => ReplacedOfGroup(cur.key) = {}
    /\ Ended =>
           \A key \in DOMAIN param_list :
               \/ ReplacedOfGroup(key) = {}
               \/ Cardinality(ReplacedOfGroup(key)) = Len(param_list[key])

\* ------------------------------------------------------------------------
\* C7: the Slice of the fused result that replaces a site has the output
\* shape the site had, and two sites of a group whose data slices start at
\* different positions receive different slices, for every data shape
\* [x, y, z] and every in-range site slice.
\* ------------------------------------------------------------------------
SlicePos(n) == nodes[op_seg_map[n][Type.DATA]].lower

SameSlice(a, b) ==
    /\ nodes[a].args = nodes[b].args
    /\ nodes[a].lower = nodes[b].lower
    /\ nodes[a].upper = nodes[b].upper
    /\ nodes[a].strides = nodes[b].strides

C7_NewSliceReproducesSite ==
    \A j \in DOMAIN replaced :
        replaced[j].run = run =>
            /\ nodes[replaced[j].new].shape = nodes[replaced[j].old].shape
            /\ \A h \in DOMAIN replaced :
                   (/\ replaced[h].run = run
                    /\ replaced[h].key = replaced[j].key
                    /\ SlicePos(replaced[h].old) # SlicePos(replaced[j].old))
                   => ~SameSlice(replaced[h].new, replaced[j].new)

\* ------------------------------------------------------------------------
\* C8: a second run of the pass on the graph the first run left performs no
\* replace_node and adds no node.
\* ------------------------------------------------------------------------
C8_SecondRunChangesNothing ==
    /\ \A j \in DOMAIN replaced : replaced[j].run = 1
    /\ \A j \in DOMAIN built : built[j].run = 1

\* the operands of Concat c that match the pattern, and what they bound
Matched(c) ==
    {j \in DOMAIN nodes[c].args :
        matcher_match(batch_dot_pattern, nodes, nodes[c].args[j]).ok}

Sources(c, j) ==
    LET m == matcher_match(batch_dot_pattern, nodes, nodes[c].args[j]).map
    IN  <<m["param_0"], m["param_1"]>>

WasReplaced(c) == \E j \in DOMAIN replaced : replaced[j].old = c

\* ------------------------------------------------------------------------
\* C9: CPUBatchDotFusion replaces a Concat by a BatchDot exactly when every
\* operand of the Concat matches the template, all operands bind the same two
\* sources, and the two sources are distinct nodes; otherwise the Concat
\* stays in the graph.
\* ------------------------------------------------------------------------
C9_FusedOnlyOnTwoSharedSources ==
    (mode = "batch" /\ pc = "done") =>
        \A c \in {n \in DOMAIN nodes : nodes[n].kind = "Concat"} :
            WasReplaced(c) <=>
                /\ Matched(c) = DOMAIN nodes[c].args
                /\ \A j, h \in Matched(c) : Sources(c, j) = Sources(c, h)
                /\ \A j \in Matched(c) : Sources(c, j)[1] # Sources(c, j)[2]

\* the Reshape nodes on the match path of branch k, from the operand down to
\* the Slice of the source
RECURSIVE PathReshapes(_, _, _)
PathReshapes(g, n, k) ==
    IF g[n].kind = "Slice" THEN 0
    ELSE (IF g[n].kind = "Reshape" THEN 1 ELSE 0)
         + PathReshapes(g, IF Len(g[n].args) > 1 THEN g[n].args[k + 1]
                           ELSE g[n].args[1], k)

\* ------------------------------------------------------------------------
\* C10: transpose flag k of the BatchDot that replaces a Concat is true when
\* branch k of the matched operands has exactly three Reshape nodes on its
\* match path, and false when it has any other number.
\* ------------------------------------------------------------------------
C10_TransposeIffThreeReshapes ==
    \A j \in DOMAIN replaced :
        mode = "batch" =>
            LET c == replaced[j].old
                flag == nodes[replaced[j].new].transpose
                Count(h, k) == PathReshapes(nodes, nodes[c].args[h], k)
            IN  \A k \in {0, 1} :
                    /\ (\A h \in Matched(c) : Count(h, k) = 3) => flag[k + 1]
                    /\ (\A h \in Matched(c) : Count(h, k) # 3) => ~flag[k + 1]

\* what get_performance_data was to return: one entry per timer, in order
AllHooks == perf.engine /\ Hooks \subseteq perf.hooks

OneEntryPerTimer ==
    /\ Len(perf.rc) = perf.count
    /\ \A i \in 1..perf.count :
           perf.rc[i] = [name |-> get_name(i - 1),
                         microseconds |-> get_microseconds(i - 1),
                         call_count |-> get_call_count(i - 1)]

\* ------------------------------------------------------------------------
\* C11 as stated: get_performance_data returns an empty sequence whenever
\* instrumentation is disabled, the engine is absent or one of the four hooks
\* is missing; with instrumentation enabled and the four hooks present it
\* returns one entry per index 0..count-1, in index order.
\* ------------------------------------------------------------------------
C11_EmptyWhenInstrumentationOff ==
    perf.asked =>
        /\ (~tracing \/ ~AllHooks) => perf.rc = <<>>
        /\ (tracing /\ AllHooks) => OneEntryPerTimer

\* ------------------------------------------------------------------------
\* C11 amended: get_performance_data returns an empty sequence whenever the
\* engine is absent or one of the four hooks is missing; with the engine and
\* the four hooks present it returns one (name, microseconds, call_count)
\* entry per index 0..count-1, in index order, count being what the count
\* hook answers, whether instrumentation is enabled or not.
\* ------------------------------------------------------------------------
C11_EmptyIffHookMissing ==
    perf.asked =>
        /\ ~AllHooks => perf.rc = <<>>
        /\ AllHooks => OneEntryPerTimer

\* with instrumentation disabled, an engine with all four hooks and two or
\* more timers was asked and every timer was returned
C11_Witness ==
    /\ perf.asked /\ ~tracing
    /\ AllHooks /\ perf.count >= 2
    /\ Len(perf.rc) = perf.count

\* the replace_node calls of the current run
ReplacedThisRun == {j \in DOMAIN replaced : replaced[j].run = run}

\* ------------------------------------------------------------------------
\* C12: when run_on_function of either pass returns, it returns true exactly
\* when it performed at least one replace_node during that run; a run that
\* found no site returns false.
\* ------------------------------------------------------------------------
C12_ReturnsTrueIffReplaced ==
    pc = "done" => (modified <=> ReplacedThisRun # {})

\* ------------------------------------------------------------------------
\* C13: whenever tensor_call reads the duration samples out of the Runtime
\* Context after the entry point returned, the duration buffer exists: it was
\* allocated by setup_runtime_context and is still there.
\* ------------------------------------------------------------------------
C13_DurationBufferExistsWhenRead ==
    lastCall.durations # "none" => lastCall.durations = "buf"

====
